---------------------------- MODULE Spec2Model ----------------------------
(***************************************************************************)
(* A model of examples/19-customize-patch.py: the HitsCountPatch metric    *)
(* accumulator (constructor, forward, add) and the way MyTask.step and the *)
(* training engine use it.                                                 *)
(*                                                                         *)
(* Tensors are sequences.  `preds` is a sequence of score rows (one per    *)
(* sample, a function from label to score), `targets` a sequence of        *)
(* labels.  A patch object is a record; the heap maps object names to      *)
(* records.  Dictionary keys f'@{v}' are the pairs <<"@", v>>.             *)
(***************************************************************************)
EXTENDS Integers, Sequences, FiniteSets

\* ---------------------------------------------------------------- bounds
NumLabels == 3      \* number of classes (columns of preds)
MaxChunk == 2       \* largest chunk given to the constructor specification
MaxBatch == 1       \* largest number of samples in one batch the engine steps
MaxCount == 3       \* cap on a merged count where patches are merged freely
MaxSteps == 3       \* batches the engine folds in one pass

Labels == 0 .. (NumLabels - 1)

\* at=(1, 2), the default of HitsCountPatch.__init__
DefaultAt == <<1, 2>>

\* the cutoff tuples a task may be configured with (no cutoff repeated)
AtConfigs == {DefaultAt, <<1>>, <<2>>}

\* np.in1d(..., assume_unique=True) is called on arrays that are not unique:
\* the answer is the one of the code path the numpy build takes.  "table" is
\* the lookup-table/loop path (plain membership), "sort" the merge-sort path.
In1dPaths == {"table", "sort"}

Objs == {"A", "B", "C", "L"}
PatchSlots == {"A", "B"}

NoObj == [kind |-> "None"]
NoRet == [kind |-> "none"]
SelfRef == [kind |-> "ref", to |-> "self"]
NewRef == [kind |-> "ref", to |-> "new"]
NoCall == [op |-> "none", self |-> "none", obj |-> "none", ret |-> NoRet, err |-> "None"]

\* ------------------------------------------------------------ pure helpers
Min(a, b) == IF a < b THEN a ELSE b

\* f'@{v}'
Key(v) == <<"@", v>>

\* score rows with pairwise distinct scores (torch leaves the order of ties open)
ScoreRows == {r \in [Labels -> 1 .. NumLabels] : \A l, m \in Labels : l # m => r[l] # r[m]}

SeqsUpTo(S, n) == UNION {[1 .. k -> S] : k \in 0 .. n}

\* one row of preds.sort(dim=1, descending=True)[1]: position i holds the
\* label that has exactly i-1 labels with a greater score
sort_desc(row) ==
    [i \in 1 .. NumLabels |->
        CHOOSE l \in Labels : Cardinality({m \in Labels : row[m] > row[l]}) = i - 1]

\* _, ids_sorted = preds.sort(dim=1, descending=True)
ids_sorted(p) == [r \in 1 .. Len(p) |-> sort_desc(p[r])]

\* ids_sorted[:, :n]
slice_cols(ids, n) == [r \in 1 .. Len(ids) |-> SubSeq(ids[r], 1, Min(n, NumLabels))]

\* ndarray.ravel() of a 2-d array: the rows one after the other
RECURSIVE ravel(_)
ravel(m) == IF Len(m) = 0 THEN <<>> ELSE m[1] \o ravel(Tail(m))

\* np.in1d(ar1, ar2, assume_unique=True), ar2 flattened first.
\*   table: element i of ar1 is flagged iff it occurs in ar2.
\*   sort : ar1 and ar2 are concatenated and stably sorted, and an element is
\*          flagged iff the element after it in sorted order is equal to it.
np_in1d(ar1, ar2, path) ==
    LET ar == ar1 \o ar2
        rank(q) == Cardinality({x \in 1 .. Len(ar) :
                        ar[x] < ar[q] \/ (ar[x] = ar[q] /\ x < q)})
    IN  [i \in 1 .. Len(ar1) |->
            IF path = "table"
            THEN \E j \in 1 .. Len(ar2) : ar2[j] = ar1[i]
            ELSE \E q \in 1 .. Len(ar) : rank(q) = rank(i) + 1 /\ ar[q] = ar[i]]

\* hit.sum()
np_sum(hit) == Cardinality({i \in 1 .. Len(hit) : hit[i]})

\* the loop `for n in at:` of __init__, from its j-th cutoff on
RECURSIVE init_loop(_, _, _, _, _, _)
init_loop(hc, ids, tgts_np, a, j, path) ==
    IF j > Len(a) THEN hc
    ELSE LET n == a[j]
             ids_n == ravel(slice_cols(ids, n))
             hit == np_in1d(tgts_np, ids_n, path)
         IN  init_loop([hc EXCEPT ![Key(n)] = @ + np_sum(hit)], ids, tgts_np, a, j + 1, path)

\* mutant: the counts start at 1 instead of 0
HitsCountPatch_from_one(p, t, a, path) ==
    [kind |-> "HitsCountPatch", at |-> a,
     hits_count |-> init_loop([k \in {Key(a[j]) : j \in 1 .. Len(a)} |-> 1],
                              ids_sorted(p), t, a, 1, path)]

\* HitsCountPatch.__init__(preds, targets, at)
HitsCountPatch(p, t, a, path) ==
    [kind |-> "HitsCountPatch", at |-> a,
     hits_count |-> init_loop([k \in {Key(a[j]) : j \in 1 .. Len(a)} |-> 0],
                              ids_sorted(p), t, a, 1, path)]

\* ValuePatch(loss.detach(), batch_size=len(model_out)): the accumulator kind
\* of the 'loss' entry; it has no hits_count attribute
ValuePatch(loss, n) == [kind |-> "ValuePatch", batch_value |-> loss, batch_size |-> n]

\* sum_dicts(dicts): the element-wise sum of the mappings (only mappings with
\* the same keys are ever summed here)
sum_dicts(dicts) ==
    LET keys == UNION {DOMAIN dicts[i] : i \in 1 .. Len(dicts)}
        get(d, k) == IF k \in DOMAIN d THEN d[k] ELSE 0
        RECURSIVE total(_, _)
        total(k, i) == IF i > Len(dicts) THEN 0 ELSE get(dicts[i], k) + total(k, i + 1)
    IN  [k \in keys |-> total(k, 1)]

\* Each method is an operator from the receiver (and argument) to the
\* receiver after the call, the value returned and the exception raised.

\* mutant: forward hands the counts out and resets them
forward_and_reset(self) ==
    [self |-> [self EXCEPT !.hits_count = [k \in DOMAIN self.hits_count |-> 0]],
     ret |-> [kind |-> "value", val |-> self.hits_count], err |-> "None"]

\* HitsCountPatch.forward
forward(self) ==
    [self |-> self, ret |-> [kind |-> "value", val |-> self.hits_count], err |-> "None"]

\* mutant: the argument's counts are summed twice, the receiver's not at all
add_obj_twice(self, obj) ==
    IF "hits_count" \notin DOMAIN obj
    THEN [self |-> self, ret |-> NoRet, err |-> "AttributeError"]
    ELSE [self |-> [self EXCEPT !.hits_count = sum_dicts(<<obj.hits_count, obj.hits_count>>)],
          ret |-> SelfRef, err |-> "None"]

\* mutant: the receiver's own counts are dropped
add_overwrite(self, obj) ==
    IF "hits_count" \notin DOMAIN obj
    THEN [self |-> self, ret |-> NoRet, err |-> "AttributeError"]
    ELSE [self |-> [self EXCEPT !.hits_count = sum_dicts(<<obj.hits_count>>)],
          ret |-> SelfRef, err |-> "None"]

\* mutant: the element-wise maximum instead of the sum
add_max(self, obj) ==
    IF "hits_count" \notin DOMAIN obj
    THEN [self |-> self, ret |-> NoRet, err |-> "AttributeError"]
    ELSE [self |-> [self EXCEPT !.hits_count =
                       [k \in DOMAIN self.hits_count |->
                           IF self.hits_count[k] > obj.hits_count[k]
                           THEN self.hits_count[k] ELSE obj.hits_count[k]]],
          ret |-> SelfRef, err |-> "None"]

\* mutant: an operand without counts is read as an empty mapping
add_lenient(self, obj) ==
    LET other == IF "hits_count" \in DOMAIN obj THEN obj.hits_count ELSE <<>>
    IN  [self |-> [self EXCEPT !.hits_count =
                       [k \in DOMAIN self.hits_count |->
                           self.hits_count[k] + (IF k \in DOMAIN other THEN other[k] ELSE 0)]],
         ret |-> SelfRef, err |-> "None"]

\* HitsCountPatch.add: reading obj.hits_count raises AttributeError when obj
\* has no such attribute, before anything is assigned; otherwise the sum is
\* stored in the receiver and the receiver is returned
add(self, obj) ==
    IF "hits_count" \notin DOMAIN obj
    THEN [self |-> self, ret |-> NoRet, err |-> "AttributeError"]
    ELSE [self |-> [self EXCEPT !.hits_count = sum_dicts(<<self.hits_count, obj.hits_count>>)],
          ret |-> SelfRef, err |-> "None"]

\* ------------------------------------------------------------------ state
VARIABLES
    in1d_path,  \* the np.in1d code path of the numpy build
    at,         \* the cutoffs the task is configured with
    preds,      \* the chunk of predictions under test (constructor specification)
    targets,    \* the chunk of true labels under test
    split_k,    \* where the chunk is split
    heap,       \* object name -> object
    call,       \* the last call: operation, receiver, argument, result, exception
    merged      \* engine pass: the construction-time counts of the patches merged so far

vars == <<in1d_path, at, preds, targets, split_k, heap, call, merged>>

IsPatch(o) == o.kind = "HitsCountPatch"

\* binding name i to a newly constructed object
Construct(i, o) ==
    /\ heap' = [heap EXCEPT ![i] = o]
    /\ call' = [op |-> "init", self |-> i, obj |-> "none", ret |-> NoRet, err |-> "None"]

\* heap[i] = HitsCountPatch(p, t, at)
New(i, p, t) == Construct(i, HitsCountPatch(p, t, at, in1d_path))

\* heap[i].add(heap[j])
CallAdd(i, j) ==
    LET r == add(heap[i], heap[j])
    IN  /\ heap' = [heap EXCEPT ![i] = r.self]
        /\ call' = [op |-> "add", self |-> i, obj |-> j, ret |-> r.ret, err |-> r.err]

\* heap[i].forward()
CallForward(i) ==
    LET r == forward(heap[i])
    IN  /\ heap' = [heap EXCEPT ![i] = r.self]
        /\ call' = [op |-> "forward", self |-> i, obj |-> "none", ret |-> r.ret, err |-> r.err]

EmptyHeap == [i \in Objs |-> NoObj]

\* ------------------------------------------- the constructor on one chunk
\* The chunk (preds, targets) and the split point are the inputs; the whole
\* chunk is given to one constructor, its two parts to two more, and the two
\* part patches are merged.
InitChunk ==
    /\ in1d_path \in In1dPaths
    /\ at \in AtConfigs
    /\ preds \in SeqsUpTo(ScoreRows, MaxChunk)
    /\ targets \in SeqsUpTo(Labels, MaxChunk)
    /\ split_k \in 0 .. Len(preds)
    /\ heap = EmptyHeap
    /\ call = NoCall
    /\ merged = <<>>

\* x[:k] and x[k:]
Upto(x, k) == SubSeq(x, 1, Min(k, Len(x)))
From(x, k) == SubSeq(x, k + 1, Len(x))

NewWhole ==
    /\ heap["A"] = NoObj
    /\ New("A", preds, targets)
    /\ UNCHANGED <<in1d_path, at, preds, targets, split_k, merged>>

NewFirst ==
    /\ heap["A"] # NoObj /\ heap["B"] = NoObj
    /\ New("B", Upto(preds, split_k), Upto(targets, split_k))
    /\ UNCHANGED <<in1d_path, at, preds, targets, split_k, merged>>

NewRest ==
    /\ heap["B"] # NoObj /\ heap["C"] = NoObj
    /\ New("C", From(preds, split_k), From(targets, split_k))
    /\ UNCHANGED <<in1d_path, at, preds, targets, split_k, merged>>

AddParts ==
    /\ heap["C"] # NoObj /\ call.op = "init"
    /\ CallAdd("B", "C")
    /\ UNCHANGED <<in1d_path, at, preds, targets, split_k, merged>>

ReadWhole ==
    /\ call.op = "add"
    /\ CallForward("A")
    /\ UNCHANGED <<in1d_path, at, preds, targets, split_k, merged>>

NextChunk == NewWhole \/ NewFirst \/ NewRest \/ AddParts \/ ReadWhole

SpecInit == InitChunk /\ [][NextChunk]_vars

\* --------------------------------------------------- patches merged freely
\* well-formed batches: as many score rows as labels
Batches ==
    {b \in SeqsUpTo(ScoreRows, MaxBatch) \X SeqsUpTo(Labels, MaxBatch) : Len(b[1]) = Len(b[2])}

\* what the constructor gives on each batch, per configuration and numpy build
CtorTable ==
    {<<a, path, HitsCountPatch(b[1], b[2], a, path)>> :
        a \in AtConfigs, path \in In1dPaths, b \in Batches}

Init ==
    /\ in1d_path \in In1dPaths
    /\ at \in AtConfigs
    /\ preds = <<>>
    /\ targets = <<>>
    /\ split_k = 0
    /\ heap = EmptyHeap
    /\ call = NoCall
    /\ merged = <<>>

\* results['nhits'] = HitsCountPatch(model_out, batch_y), bound to a name
NewPatch ==
    /\ \E i \in PatchSlots, e \in CtorTable :
          /\ e[1] = at /\ e[2] = in1d_path
          /\ Construct(i, e[3])
    /\ UNCHANGED <<in1d_path, at, preds, targets, split_k, merged>>

\* results = {'loss': ValuePatch(loss.detach(), batch_size=len(model_out))}
NewLoss ==
    /\ \E n \in 0 .. MaxBatch : Construct("L", ValuePatch("loss", n))
    /\ UNCHANGED <<in1d_path, at, preds, targets, split_k, merged>>

CountsWithin(o, bound) == \A k \in DOMAIN o.hits_count : o.hits_count[k] <= bound

\* x.add(y) for a patch x and any live object y
AddPatch ==
    /\ \E i \in PatchSlots, j \in Objs :
          /\ IsPatch(heap[i]) /\ heap[j] # NoObj
          /\ CountsWithin(add(heap[i], heap[j]).self, MaxCount)
          /\ CallAdd(i, j)
    /\ UNCHANGED <<in1d_path, at, preds, targets, split_k, merged>>

\* x.forward()
ForwardPatch ==
    /\ \E i \in PatchSlots : IsPatch(heap[i]) /\ CallForward(i)
    /\ UNCHANGED <<in1d_path, at, preds, targets, split_k, merged>>

Next == NewPatch \/ NewLoss \/ AddPatch \/ ForwardPatch

Spec == Init /\ [][Next]_vars

\* ------------------------------------------------ the engine's pass (fold)
\* "A" is the running accumulator P1.add(P2).add(P3)..., "B" the patch of the
\* batch just stepped.
EngineFirst ==
    /\ heap["A"] = NoObj
    /\ \E e \in CtorTable :
          /\ e[1] = at /\ e[2] = in1d_path
          /\ Construct("A", e[3])
          /\ merged' = <<e[3].hits_count>>
    /\ UNCHANGED <<in1d_path, at, preds, targets, split_k>>

EngineStep ==
    /\ heap["A"] # NoObj /\ heap["B"] = NoObj /\ Len(merged) < MaxSteps
    /\ \E e \in CtorTable :
          /\ e[1] = at /\ e[2] = in1d_path
          /\ Construct("B", e[3])
    /\ UNCHANGED <<in1d_path, at, preds, targets, split_k, merged>>

EngineMerge ==
    /\ heap["B"] # NoObj
    /\ LET r == add(heap["A"], heap["B"])
       IN  /\ heap' = [heap EXCEPT !["A"] = r.self, !["B"] = NoObj]
           /\ call' = [op |-> "add", self |-> "A", obj |-> "B", ret |-> r.ret, err |-> r.err]
    /\ merged' = Append(merged, heap["B"].hits_count)
    /\ UNCHANGED <<in1d_path, at, preds, targets, split_k>>

EngineValue ==
    /\ heap["A"] # NoObj
    /\ CallForward("A")
    /\ UNCHANGED <<in1d_path, at, preds, targets, split_k, merged>>

NextEngine == EngineFirst \/ EngineStep \/ EngineMerge \/ EngineValue

SpecEngine == Init /\ [][NextEngine]_vars

\* ----------------------------------------------------------------- claims
\* the value a call of forward() on o returns
Value(o) == forward(o).ret.val

\* the 1-indexed position of label l in the ranking of one score row
RankOf(row, l) == Cardinality({m \in Labels : row[m] > row[l]}) + 1

\* the samples whose own true label is among their own top-n labels
RowwiseHits(p, t, n) == Cardinality({i \in 1 .. Len(t) : RankOf(p[i], t[i]) <= n})

WellFormedChunk == Len(preds) = Len(targets)

\* C1: for a batch of N samples and every cutoff k of `at`, the constructed
\* hits_count['@k'] is the number of samples whose own true label is among
\* that same sample's top-k labels (row-wise membership).
C1_HitsAreRowwise ==
    (IsPatch(heap["A"]) /\ WellFormedChunk) =>
        \A j \in 1 .. Len(at) :
            heap["A"].hits_count[Key(at[j])] = RowwiseHits(preds, targets, at[j])

\* C2: a patch over the first k samples merged with a patch over the other
\* N-k samples has the forward() value of one patch over all N samples.
C2_SplitMergeEqualsWhole ==
    (call.op \in {"add", "forward"} /\ WellFormedChunk) =>
        Value(heap["B"]) = Value(heap["A"])

\* C7: a constructor call with as many prediction rows as not target labels
\* ends in an error and leaves no accumulator.
C7_MismatchedSizesRejected ==
    (call.op = "init" /\ call.self = "A" /\ ~WellFormedChunk) =>
        (call.err # "None" /\ heap["A"] = NoObj)

\* a fresh patch whose construction gave the counts m (the same batch gives
\* the same counts again under the same numpy build)
Fresh(m) == [kind |-> "HitsCountPatch", at |-> at, hits_count |-> m]

\* P1'.add(P2'.add(P3'. ...)) on fresh patches
RECURSIVE AddRight(_)
AddRight(ms) ==
    IF Len(ms) = 1 THEN Fresh(ms[1])
    ELSE add(Fresh(ms[1]), AddRight(Tail(ms))).self

\* P1'.add(P2').add(P3')... on fresh patches
RECURSIVE AddLeft(_)
AddLeft(ms) ==
    IF Len(ms) = 1 THEN Fresh(ms[1])
    ELSE add(AddLeft(SubSeq(ms, 1, Len(ms) - 1)), Fresh(ms[Len(ms)])).self

Reverse(ms) == [i \in 1 .. Len(ms) |-> ms[Len(ms) + 1 - i]]

HasHit(m) == \E k \in DOMAIN m : m[k] > 0

\* C3: the accumulator A.add(B).add(C) the engine has built has the value of
\* A'.add(B'.add(C')) on fresh patches of the same batches: merge is
\* associative on the forward() value, though add mutates its receiver.
C3_AddAssociative ==
    (IsPatch(heap["A"]) /\ Len(merged) >= 1) =>
        Value(heap["A"]) = Value(AddRight(merged))

C3_Witness ==
    /\ call.op = "add" /\ call.err = "None"
    /\ Len(merged) = 3
    /\ \A i \in 1 .. 3 : HasHit(merged[i])
    /\ merged[1] # merged[2]

\* C4: the accumulator the engine has built by merging the patches in one
\* order has the value of merging fresh patches of the same batches in the
\* opposite order (for two patches: A.add(B) and B'.add(A')).
C4_AddCommutative ==
    (IsPatch(heap["A"]) /\ Len(merged) >= 2) =>
        Value(heap["A"]) = Value(AddLeft(Reverse(merged)))

C4_Witness ==
    /\ call.op = "add" /\ call.err = "None"
    /\ Len(merged) = 2
    /\ HasHit(merged[1]) /\ HasHit(merged[2])
    /\ merged[1] # merged[2]

\* the patch of a batch of zero samples
ZeroPatch == HitsCountPatch(<<>>, <<>>, at, in1d_path)

\* C5: a merge of A with a zero-sample patch Z leaves A's value as it was
\* (A.add(Z)), and a merge of a zero-sample accumulator Z with A gives A's
\* value (Z.add(A)).
C5_ZeroPatchIsNeutral ==
    [][call'.op = "add" =>
          /\ heap["B"] = ZeroPatch => Value(heap'["A"]) = Value(heap["A"])
          /\ heap["A"] = ZeroPatch => Value(heap'["A"]) = Value(heap["B"])]_vars

C5_Witness ==
    /\ call.op = "add" /\ call.err = "None"
    /\ Len(merged) = 3
    /\ merged[1] = ZeroPatch.hits_count
    /\ HasHit(merged[2])
    /\ merged[3] = ZeroPatch.hits_count

C8_AddReturnsNewObject ==
    [][(call'.op = "add" /\ call'.err = "None") =>
          (call'.ret = NewRef /\ heap'[call'.self] = heap[call'.self])]_vars

\* C9: forward() changes neither hits_count nor at of any patch, and two
\* forward() calls on a patch with nothing in between return equal values.
C9_ForwardIsPureRead ==
    [][call'.op = "forward" =>
          /\ heap' = heap
          /\ call'.ret = [kind |-> "value", val |-> heap[call'.self].hits_count]
          /\ (call.op = "forward" /\ call.self = call'.self) => call'.ret = call.ret]_vars

C9_Witness ==
    /\ call.op = "forward"
    /\ \E k \in DOMAIN call.ret.val : call.ret.val[k] > 0

\* the sum over the merged patches of their construction-time count for key k
RECURSIVE SumOver(_, _)
SumOver(ms, k) == IF Len(ms) = 0 THEN 0 ELSE ms[1][k] + SumOver(Tail(ms), k)

\* C10: while the engine folds add over the per-batch patches, the
\* accumulator's keys are exactly the '@k' of the cutoffs and each count is the
\* sum of the construction-time counts of the patches merged so far.
C10_FoldIsSumOfMerged ==
    IsPatch(heap["A"]) =>
        /\ DOMAIN heap["A"].hits_count = {Key(at[j]) : j \in 1 .. Len(at)}
        /\ \A k \in DOMAIN heap["A"].hits_count :
              heap["A"].hits_count[k] = SumOver(merged, k)

C10_Witness ==
    /\ call.op = "add" /\ Len(merged) >= 2
    /\ \E k \in DOMAIN heap["A"].hits_count : merged[1][k] > 0 /\ merged[2][k] > 0

=============================================================================
